---- MODULE Spec2Model ----
(***************************************************************************)
(* Country-info aggregation service: the status, info and exchange         *)
(* handlers and the two upstream clients they call.                        *)
(*                                                                         *)
(* A string is a sequence of Unicode code points (Latin-1 range).  len,    *)
(* as in Go, counts UTF-8 bytes, not code points.  A request is processed  *)
(* one upstream call at a time: each "await" position of pc is a point     *)
(* where the handler is blocked in httpClient.Get, and the reply is the    *)
(* environment's choice.                                                   *)
(***************************************************************************)
EXTENDS Integers, Sequences, FiniteSets, TLC

(* ------------------------------ bounds -------------------------------- *)

\* longest border list of a country record
MaxBorders == 2
\* largest number of currency keys of a country record
MaxCurrencies == 2
\* longest list body of the country provider
MaxList == 2

(* --------------------------- string literals --------------------------- *)

s_no == <<110, 111>>
s_No_padded == <<32, 78, 111, 9>>
s_n == <<110>>
s_nor == <<110, 111, 114>>
s_n1 == <<110, 49>>
s_eacute == <<233>>
s_n_o == <<110, 32, 111>>
s_empty == <<>>

s_NOK == <<78, 79, 75>>
s_sek == <<115, 101, 107>>
s_SEK == <<83, 69, 75>>
s_EU == <<69, 85>>
s_12A == <<49, 50, 65>>

s_SWE == <<83, 87, 69>>
s_FIN_padded == <<32, 70, 73, 78>>
s_blank == <<32, 32>>

s_Norway == <<78>>
s_Other == <<79>>

(* ------------------------------ strings -------------------------------- *)

\* UTF-8 width of one code point
RuneLen(ch) == IF ch < 128 THEN 1 ELSE IF ch < 2048 THEN 2 ELSE 3

RECURSIVE len(_)
\* Go's len(string): the number of bytes
len(s) == IF s = <<>> THEN 0 ELSE RuneLen(Head(s)) + len(Tail(s))

\* unicode.ToLower on the Latin-1 range
RuneToLower(ch) ==
    IF ch >= 65 /\ ch <= 90 THEN ch + 32
    ELSE IF ch >= 192 /\ ch <= 222 /\ ch # 215 THEN ch + 32
    ELSE ch

\* unicode.ToUpper on the Latin-1 range
RuneToUpper(ch) ==
    IF ch >= 97 /\ ch <= 122 THEN ch - 32
    ELSE IF ch >= 224 /\ ch <= 254 /\ ch # 247 THEN ch - 32
    ELSE IF ch = 181 THEN 924
    ELSE IF ch = 255 THEN 376
    ELSE ch

ToLower(s) == [i \in 1..Len(s) |-> RuneToLower(s[i])]

ToUpper(s) == [i \in 1..Len(s) |-> RuneToUpper(s[i])]

\* unicode.IsSpace on the Latin-1 range
IsSpace(ch) == ch \in {9, 10, 11, 12, 13, 32, 133, 160}

RECURSIVE TrimLeft(_)
TrimLeft(s) == IF s # <<>> /\ IsSpace(Head(s)) THEN TrimLeft(Tail(s)) ELSE s

RECURSIVE TrimRight(_)
TrimRight(s) ==
    IF s # <<>> /\ IsSpace(s[Len(s)]) THEN TrimRight(SubSeq(s, 1, Len(s) - 1)) ELSE s

TrimSpace(s) == TrimRight(TrimLeft(s))

RECURSIVE StrLess(_, _)
\* a < b on Go strings (byte-wise, which is code-point order in UTF-8)
StrLess(a, b) ==
    IF b = <<>> THEN FALSE
    ELSE IF a = <<>> THEN TRUE
    ELSE IF Head(a) # Head(b) THEN Head(a) < Head(b)
    ELSE StrLess(Tail(a), Tail(b))

RECURSIVE Insert(_, _)
Insert(k, sorted) ==
    IF sorted = <<>> THEN <<k>>
    ELSE IF StrLess(Head(sorted), k) THEN <<Head(sorted)>> \o Insert(k, Tail(sorted))
    ELSE <<k>> \o sorted

RECURSIVE SortStrings(_)
\* sort.Strings
SortStrings(keys) ==
    IF keys = <<>> THEN <<>> ELSE Insert(Head(keys), SortStrings(Tail(keys)))

(* ----------------------------- validation ------------------------------ *)

normalizeISO2(code) == ToLower(TrimSpace(code))

validISO2_LengthOnly(code) == len(code) = 2

validISO2(code) ==
    /\ len(code) = 2
    /\ \A i \in 1..Len(code) : code[i] >= 97 /\ code[i] <= 122

(* --------------------------- upstream clients -------------------------- *)

StatusOK == 200
StatusBadRequest == 400
StatusNotFound == 404
StatusMethodNotAllowed == 405
StatusBadGateway == 502

NilCountry == [nil |-> TRUE, name |-> <<>>, borders |-> <<>>, currencies |-> {}]

NilRates == [nil |-> TRUE, result |-> "", rates |-> <<>>]

probeHTTP(reply) == IF reply.transport THEN StatusBadGateway ELSE reply.status

\* the result triple (country, status, err); only the list shape is decoded
fetchCountryAlpha(reply) ==
    IF reply.transport THEN [c |-> NilCountry, st |-> 0, err |-> "transport"]
    ELSE IF reply.status # StatusOK THEN [c |-> NilCountry, st |-> reply.status, err |-> "none"]
    ELSE IF reply.shape = "invalid" THEN [c |-> NilCountry, st |-> 0, err |-> "decode"]
    ELSE IF reply.shape = "list" /\ Len(reply.items) > 0
         THEN [c |-> reply.items[1], st |-> StatusOK, err |-> "none"]
    ELSE [c |-> NilCountry, st |-> 0, err |-> "shape"]

firstCurrencyCodeSorted_Unsorted(keys) == IF Len(keys) = 0 THEN <<>> ELSE keys[1]

\* keys: the map's keys in the order the range loop yields them
firstCurrencyCodeSorted(keys) ==
    IF Len(keys) = 0 THEN <<>> ELSE SortStrings(keys)[1]

fetchRates(reply) ==
    IF reply.transport THEN [r |-> NilRates, st |-> 0, err |-> "transport"]
    ELSE IF reply.status # StatusOK THEN [r |-> NilRates, st |-> reply.status, err |-> "none"]
    ELSE IF ~reply.valid THEN [r |-> NilRates, st |-> 0, err |-> "decode"]
    ELSE [r |-> [nil |-> FALSE, result |-> reply.result, rates |-> reply.rates],
          st |-> StatusOK, err |-> "none"]

(* ------------------------- handlers' decisions ------------------------- *)

\* outcome of the handler's checks on the input-country lookup: the status
\* and message it writes, or StatusOK to go on
InfoLookup(f) ==
    IF f.err # "none"
        THEN [status |-> StatusBadGateway, error |-> "failed to call countries service"]
    ELSE IF f.st = StatusNotFound \/ f.c.nil
        THEN [status |-> StatusNotFound, error |-> "country not found"]
    ELSE IF f.st # StatusOK
        THEN [status |-> StatusBadGateway, error |-> "countries service returned non-200"]
    ELSE [status |-> StatusOK, error |-> ""]

ExchangeLookup(f) ==
    IF f.err # "none"
        THEN [status |-> StatusBadGateway, error |-> "failed to call countries service"]
    ELSE IF f.st = StatusNotFound \/ f.c.nil
        THEN [status |-> StatusNotFound, error |-> "country not found"]
    ELSE IF f.st # StatusOK
        THEN [status |-> StatusBadGateway, error |-> "countries service returned non-200"]
    ELSE [status |-> StatusOK, error |-> ""]

validCurrency(ccy) == ~(ccy = <<>> \/ len(ccy) # 3)

NeighbourLookup_ErrOnly(f) ==
    IF f.err # "none"
        THEN [status |-> StatusBadGateway,
              error |-> "failed to call countries service for neighbours"]
    ELSE [status |-> StatusOK, error |-> ""]

NeighbourLookup(f) ==
    IF f.err # "none"
        THEN [status |-> StatusBadGateway,
              error |-> "failed to call countries service for neighbours"]
    ELSE IF f.st # StatusOK \/ f.c.nil
        THEN [status |-> StatusBadGateway,
              error |-> "countries service failed neighbour lookup"]
    ELSE [status |-> StatusOK, error |-> ""]

addNeighbour_KeepBase(neigh, ccy, b) ==
    IF ~validCurrency(ccy) THEN neigh ELSE neigh \cup {ccy}

\* the neighbour-currency set after one resolved neighbour
addNeighbour(neigh, ccy, b) ==
    IF ~validCurrency(ccy) THEN neigh
    ELSE IF ccy = b THEN neigh
    ELSE neigh \cup {ccy}

skipRates_Never(neigh) == FALSE

skipRates(neigh) == Cardinality(neigh) = 0

RatesLookup(f) ==
    IF f.err # "none"
        THEN [status |-> StatusBadGateway, error |-> "failed to call currency service"]
    ELSE IF f.st # StatusOK \/ f.r.nil
        THEN [status |-> StatusBadGateway, error |-> "currency service returned non-200"]
    ELSE IF f.r.result # "" /\ f.r.result # "success"
        THEN [status |-> StatusBadGateway,
              error |-> "currency service returned result != success"]
    ELSE [status |-> StatusOK, error |-> ""]

filterRates(neigh, rates) == [ccy \in neigh \cap DOMAIN rates |-> rates[ccy]]

overallStatus_FirstOnly(rest, curr) ==
    IF rest # StatusOK THEN StatusBadGateway ELSE StatusOK

overallStatus_PassThrough(rest, curr) == IF rest # StatusOK THEN rest ELSE curr

overallStatus(rest, curr) ==
    IF rest # StatusOK \/ curr # StatusOK THEN StatusBadGateway ELSE StatusOK

RECURSIVE NextBorder(_, _)
\* index of the first border at or after from that is not blank, else Len + 1
NextBorder(borders, from) ==
    IF from > Len(borders) THEN from
    ELSE IF TrimSpace(borders[from]) = <<>> THEN NextBorder(borders, from + 1)
    ELSE from

(* ------------------------------ responses ------------------------------ *)

NoResp ==
    [status |-> 0, kind |-> "none", error |-> "", name |-> <<>>, borders |-> <<>>,
     base |-> <<>>, rates |-> <<>>, rest |-> 0, curr |-> 0]

writeJSONError(status, msg) ==
    [NoResp EXCEPT !.status = status, !.kind = "error", !.error = msg]

\* the projection of a country record; continents, population, area, languages,
\* flag and capital are copied from the record the same way and are left out
infoResponse(c) ==
    [NoResp EXCEPT !.status = StatusOK, !.kind = "info", !.name = c.name,
                   !.borders = c.borders]

exchangeResponse(c, b, rates) ==
    [NoResp EXCEPT !.status = StatusOK, !.kind = "exchange", !.name = c.name,
                   !.base = b, !.rates = rates]

statusResponse(rest, curr) ==
    [NoResp EXCEPT !.status = overallStatus(rest, curr), !.kind = "status",
                   !.rest = rest, !.curr = curr]

(* ------------------------- environment's inputs ------------------------ *)

Methods == {"GET", "POST"}

\* the part of the request path after the route prefix
PathCodes == {s_no, s_No_padded, s_n, s_nor, s_n1, s_eacute, s_n_o, s_empty}

\* currency keys of the input country (ASCII: one byte per character)
CurrencyKeys == {s_NOK, s_sek, s_EU, s_12A}

CurrencySets == {S \in SUBSET CurrencyKeys : Cardinality(S) <= MaxCurrencies}

\* border codes as the provider may list them: padded, or blank
BorderCodes == {s_FIN_padded, s_blank}

RECURSIVE SeqsUpTo(_, _)
SeqsUpTo(S, n) ==
    IF n = 0 THEN {<<>>}
    ELSE LET shorter == SeqsUpTo(S, n - 1)
         IN  shorter \cup {Append(q, x) : q \in {r \in shorter : Len(r) = n - 1}, x \in S}

InputCountries ==
    {[nil |-> FALSE, name |-> s_Norway, borders |-> b, currencies |-> cs] :
        b \in SeqsUpTo(BorderCodes, MaxBorders), cs \in CurrencySets}

\* currency keys of the neighbours
NeighbourKeys == {s_NOK, s_sek, s_EU}

NeighbourCountries ==
    {[nil |-> FALSE, name |-> s_Other, borders |-> <<>>, currencies |-> cs] :
        cs \in {S \in SUBSET NeighbourKeys : Cardinality(S) <= MaxCurrencies}}

OtherCountry ==
    [nil |-> FALSE, name |-> s_Other, borders |-> <<s_SWE>>, currencies |-> {s_EU}]

UpstreamStatuses == {200, 404, 500}

NoReply ==
    [transport |-> FALSE, status |-> 0, shape |-> "none", items |-> <<>>,
     valid |-> FALSE, result |-> "", rates |-> <<>>]

TransportError == [NoReply EXCEPT !.transport = TRUE]

StatusReply(st) == [NoReply EXCEPT !.status = st]

\* a body of the country provider holding Countries: one object, or a list of
\* up to MaxList records (the later ones are OtherCountry), or no record
CountryBodies(Countries) ==
    {[NoReply EXCEPT !.status = StatusOK, !.shape = "invalid"],
     [NoReply EXCEPT !.status = StatusOK, !.shape = "list"]}
    \cup {[NoReply EXCEPT !.status = StatusOK, !.shape = "object", !.items = <<c>>] :
            c \in Countries}
    \cup {[NoReply EXCEPT !.status = StatusOK, !.shape = "list",
                          !.items = <<c>> \o [i \in 1..n |-> OtherCountry]] :
            c \in Countries, n \in 0..(MaxList - 1)}

CountryReplies(Countries) ==
    {TransportError} \cup {StatusReply(st) : st \in UpstreamStatuses \ {StatusOK}}
    \cup CountryBodies(Countries)

ProbeReplies == {TransportError} \cup {StatusReply(st) : st \in UpstreamStatuses}

RateKeys == {s_SEK, s_NOK}

RateVals == {1, 2}

RateMaps == UNION {[D -> RateVals] : D \in SUBSET RateKeys}

FullRates == [ccy \in RateKeys |-> 1]

RatesReplies ==
    {TransportError, StatusReply(500),
     StatusReply(StatusOK),
     [NoReply EXCEPT !.status = StatusOK, !.valid = TRUE, !.result = "error",
                     !.rates = FullRates],
     [NoReply EXCEPT !.status = StatusOK, !.valid = TRUE, !.result = "",
                     !.rates = FullRates]}
    \cup {[NoReply EXCEPT !.status = StatusOK, !.valid = TRUE, !.result = "success",
                          !.rates = m] : m \in RateMaps}

InputReplies == CountryReplies(InputCountries)

NeighbourReplies == CountryReplies(NeighbourCountries)

\* the orders in which a range loop may yield the keys of a map
KeyOrders(keys) ==
    {q \in SeqsUpTo(keys, Cardinality(keys)) :
        Len(q) = Cardinality(keys) /\ {q[i] : i \in 1..Len(q)} = keys}

(* -------------------------------- state -------------------------------- *)

VARIABLES
    pc,               \* where the request being served is
    req,              \* the inbound request: endpoint, method, path code
    code,             \* the normalised path code
    input,            \* the input country of the exchange endpoint
    base,             \* its base currency
    idx,              \* index of the border being looked up
    neighCurrencies,  \* the accumulated neighbour-currency set
    restStatus,       \* the first probe's code
    reply,            \* the upstream response being processed
    fetched,          \* the result of the last fetchCountryAlpha
    ratesResp,        \* the result of fetchRates
    resolved,         \* the neighbour records resolved so far
    calls,            \* the outbound calls of this request, in order
    resp,             \* the response written
    writes            \* how many responses were written

vars == <<pc, req, code, input, base, idx, neighCurrencies, restStatus, reply,
          fetched, ratesResp, resolved, calls, resp, writes>>

NoReq == [endpoint |-> "none", method |-> "", path |-> <<>>]

NoFetch == [c |-> NilCountry, st |-> 0, err |-> "none"]

NoRates == [r |-> NilRates, st |-> 0, err |-> "none"]

Init ==
    /\ pc = "idle"
    /\ req = NoReq
    /\ code = <<>>
    /\ input = NilCountry
    /\ base = <<>>
    /\ idx = 0
    /\ neighCurrencies = {}
    /\ restStatus = 0
    /\ reply = NoReply
    /\ fetched = NoFetch
    /\ ratesResp = NoRates
    /\ resolved = {}
    /\ calls = <<>>
    /\ resp = NoResp
    /\ writes = 0

Call(svc, arg) == [svc |-> svc, arg |-> arg, res |-> "pending", status |-> 0]

\* how a fetch or a probe ended: "ok", "status", "transport", "decode", "shape"
Outcome(f) == IF f.err # "none" THEN f.err ELSE IF f.st # StatusOK THEN "status" ELSE "ok"

ProbeOutcome(r) ==
    IF r.transport THEN "transport" ELSE IF r.status # StatusOK THEN "status" ELSE "ok"

\* the call log with the outcome and the HTTP status (0: none) of the pending
\* (last) call filled in
Answered(cs, outcome, r) ==
    [cs EXCEPT ![Len(cs)].res = outcome,
               ![Len(cs)].status = IF r.transport THEN 0 ELSE r.status]

Write(r) == resp' = r /\ writes' = writes + 1 /\ pc' = "done"

(* ---------------------------- status endpoint -------------------------- *)

\* StatusHandler up to the first probe's httpClient.Get
StatusStart ==
    /\ pc = "idle"
    /\ \E method \in Methods :
          /\ req' = [endpoint |-> "status", method |-> method, path |-> <<>>]
          /\ IF method # "GET"
             THEN /\ Write(writeJSONError(StatusMethodNotAllowed, "method not allowed"))
                  /\ UNCHANGED calls
             ELSE /\ calls' = <<Call("country", s_no)>>
                  /\ pc' = "await_probe1"
                  /\ UNCHANGED <<resp, writes>>
          /\ UNCHANGED <<code, input, base, idx, neighCurrencies, restStatus, reply,
                         fetched, ratesResp, resolved>>

\* the first probe returns; the second is issued
Probe1Reply ==
    /\ pc = "await_probe1"
    /\ \E r \in ProbeReplies :
          /\ reply' = r
          /\ restStatus' = probeHTTP(r)
          /\ calls' = Append(Answered(calls, ProbeOutcome(r), r),
                             Call("rates", s_NOK))
          /\ pc' = "await_probe2"
          /\ UNCHANGED <<req, code, input, base, idx, neighCurrencies, fetched, ratesResp,
                         resolved, resp, writes>>

\* the second probe returns; the handler writes the aggregate
Probe2Reply ==
    /\ pc = "await_probe2"
    /\ \E r \in ProbeReplies :
          /\ reply' = r
          /\ calls' = Answered(calls, ProbeOutcome(r), r)
          /\ Write(statusResponse(restStatus, probeHTTP(r)))
          /\ UNCHANGED <<req, code, input, base, idx, neighCurrencies, restStatus, fetched,
                         ratesResp, resolved>>

(* ----------------------------- info endpoint --------------------------- *)

\* InfoHandler up to fetchCountryAlpha's httpClient.Get
InfoStart ==
    /\ pc = "idle"
    /\ \E method \in Methods, path \in PathCodes :
          /\ req' = [endpoint |-> "info", method |-> method, path |-> path]
          /\ IF method # "GET"
             THEN /\ Write(writeJSONError(StatusMethodNotAllowed, "method not allowed"))
                  /\ UNCHANGED <<code, calls>>
             ELSE /\ code' = normalizeISO2(path)
                  /\ IF ~validISO2(code')
                     THEN /\ Write(writeJSONError(StatusBadRequest,
                                                  "two_letter_country_code must be 2 letters (ISO 3166-2), e.g. /countryinfo/v1/info/no"))
                          /\ UNCHANGED calls
                     ELSE /\ calls' = <<Call("country", code')>>
                          /\ pc' = "await_country"
                          /\ UNCHANGED <<resp, writes>>
          /\ UNCHANGED <<input, base, idx, neighCurrencies, restStatus, reply, fetched,
                         ratesResp, resolved>>

\* the country lookup returns; the handler writes the projection or the error
InfoCountryReply ==
    /\ pc = "await_country"
    /\ req.endpoint = "info"
    /\ \E r \in InputReplies :
          /\ reply' = r
          /\ fetched' = fetchCountryAlpha(r)
          /\ calls' = Answered(calls, Outcome(fetched'), r)
          /\ LET chk == InfoLookup(fetched')
             IN  IF chk.status # StatusOK
                 THEN Write(writeJSONError(chk.status, chk.error))
                 ELSE Write(infoResponse(fetched'.c))
          /\ UNCHANGED <<req, code, input, base, idx, neighCurrencies, restStatus, ratesResp,
                         resolved>>

(* --------------------------- exchange endpoint ------------------------- *)

\* ExchangeHandler up to the input country's httpClient.Get
ExchangeStart ==
    /\ pc = "idle"
    /\ \E method \in Methods, path \in PathCodes :
          /\ req' = [endpoint |-> "exchange", method |-> method, path |-> path]
          /\ IF method # "GET"
             THEN /\ Write(writeJSONError(StatusMethodNotAllowed, "method not allowed"))
                  /\ UNCHANGED <<code, calls>>
             ELSE /\ code' = normalizeISO2(path)
                  /\ IF ~validISO2(code')
                     THEN /\ Write(writeJSONError(StatusBadRequest,
                                                  "two_letter_country_code must be 2 letters (ISO 3166-2), e.g. /countryinfo/v1/exchange/no"))
                          /\ UNCHANGED calls
                     ELSE /\ calls' = <<Call("country", code')>>
                          /\ pc' = "await_country"
                          /\ UNCHANGED <<resp, writes>>
          /\ UNCHANGED <<input, base, idx, neighCurrencies, restStatus, reply, fetched,
                         ratesResp, resolved>>

\* The neighbour loop from border index from on, with the call log cs and the
\* set neigh: it blocks in the next neighbour's lookup, or, past the last
\* border, writes the empty mapping or blocks in the rate lookup.
FanOut(c, b, from, neigh, cs) ==
    LET j == NextBorder(c.borders, from)
    IN  /\ idx' = j
        /\ neighCurrencies' = neigh
        /\ IF j <= Len(c.borders)
           THEN /\ calls' = Append(cs, Call("country", TrimSpace(c.borders[j])))
                /\ pc' = "await_neigh"
                /\ UNCHANGED <<resp, writes>>
           ELSE IF skipRates(neigh)
           THEN /\ calls' = cs
                /\ Write(exchangeResponse(c, b, <<>>))
           ELSE /\ calls' = Append(cs, Call("rates", b))
                /\ pc' = "await_rates"
                /\ UNCHANGED <<resp, writes>>

\* the input country's lookup returns: steps 1 and 2, then the loop's start
ExchangeCountryReply ==
    /\ pc = "await_country"
    /\ req.endpoint = "exchange"
    /\ \E r \in InputReplies :
          /\ reply' = r
          /\ fetched' = fetchCountryAlpha(r)
          /\ \E order \in KeyOrders(fetched'.c.currencies) :
             LET chk == ExchangeLookup(fetched')
                 cs == Answered(calls, Outcome(fetched'), r)
                 b == ToUpper(firstCurrencyCodeSorted(order))
             IN  IF chk.status # StatusOK
                 THEN /\ Write(writeJSONError(chk.status, chk.error))
                      /\ calls' = cs
                      /\ UNCHANGED <<input, base, idx, neighCurrencies>>
                 ELSE /\ input' = fetched'.c
                      /\ base' = b
                      /\ IF ~validCurrency(b)
                         THEN /\ Write(writeJSONError(StatusBadGateway,
                                                      "input country has no valid currency"))
                              /\ calls' = cs
                              /\ UNCHANGED <<idx, neighCurrencies>>
                         ELSE FanOut(input', b, 1, {}, cs)
          /\ UNCHANGED <<req, code, restStatus, ratesResp, resolved>>

\* a neighbour's lookup returns: the rest of that iteration, then the loop
NeighbourReply ==
    /\ pc = "await_neigh"
    /\ \E r \in NeighbourReplies :
          /\ reply' = r
          /\ fetched' = fetchCountryAlpha(r)
          /\ \E order \in KeyOrders(fetched'.c.currencies) :
             LET chk == NeighbourLookup(fetched')
                 cs == Answered(calls, Outcome(fetched'), r)
                 ccy == ToUpper(firstCurrencyCodeSorted(order))
             IN  IF chk.status # StatusOK
                 THEN /\ Write(writeJSONError(chk.status, chk.error))
                      /\ calls' = cs
                      /\ UNCHANGED <<idx, neighCurrencies, resolved>>
                 ELSE /\ resolved' = resolved \cup {fetched'.c}
                      /\ FanOut(input, base, idx + 1, addNeighbour(neighCurrencies, ccy, base), cs)
          /\ UNCHANGED <<req, code, input, base, restStatus, ratesResp>>

\* the rate lookup returns: steps 4 and 5
RatesReply ==
    /\ pc = "await_rates"
    /\ \E r \in RatesReplies :
          /\ reply' = r
          /\ ratesResp' = fetchRates(r)
          /\ calls' = Answered(calls, Outcome(ratesResp'), r)
          /\ LET chk == RatesLookup(ratesResp')
             IN  IF chk.status # StatusOK
                 THEN Write(writeJSONError(chk.status, chk.error))
                 ELSE Write(exchangeResponse(input, base,
                                             filterRates(neighCurrencies, ratesResp'.r.rates)))
          /\ UNCHANGED <<req, code, input, base, idx, neighCurrencies, restStatus, fetched,
                         resolved>>

(* ------------------------------ the server ----------------------------- *)

\* the handler has returned; the server is ready for the next request
Finish ==
    /\ pc = "done"
    /\ pc' = "idle"
    /\ req' = NoReq
    /\ code' = <<>>
    /\ input' = NilCountry
    /\ base' = <<>>
    /\ idx' = 0
    /\ neighCurrencies' = {}
    /\ restStatus' = 0
    /\ reply' = NoReply
    /\ fetched' = NoFetch
    /\ ratesResp' = NoRates
    /\ resolved' = {}
    /\ calls' = <<>>
    /\ resp' = NoResp
    /\ writes' = 0

Next ==
    \/ StatusStart
    \/ Probe1Reply
    \/ Probe2Reply
    \/ InfoStart
    \/ InfoCountryReply
    \/ ExchangeStart
    \/ ExchangeCountryReply
    \/ NeighbourReply
    \/ RatesReply
    \/ Finish

Spec == Init /\ [][Next]_vars

TypeOK ==
    /\ pc \in {"idle", "await_probe1", "await_probe2", "await_country", "await_neigh",
               "await_rates", "done"}
    /\ writes \in 0..2

(* ------------------------- reference definitions ----------------------- *)

Min(a, b) == IF a < b THEN a ELSE b

\* a precedes b in lexicographic order of code points
LexLess(a, b) ==
    \E i \in 1..(Min(Len(a), Len(b)) + 1) :
        /\ \A j \in 1..(i - 1) : a[j] = b[j]
        /\ \/ i > Len(a) /\ i <= Len(b)
           \/ i <= Len(a) /\ i <= Len(b) /\ a[i] < b[i]

\* the lexicographically smallest key of a non-empty key set
MinKey(S) == CHOOSE k \in S : \A o \in S : o = k \/ LexLess(k, o)

\* exactly two characters, both in a-z
TwoLowerLetters(s) == Len(s) = 2 /\ \A i \in 1..Len(s) : s[i] \in 97..122

\* exactly three characters, all in A-Z
ThreeUpperLetters(s) == Len(s) = 3 /\ \A i \in 1..Len(s) : s[i] \in 65..90

Indexes(svc) == {i \in 1..Len(calls) : calls[i].svc = svc}

Failed(call) == call.res \notin {"ok", "pending"}

RECURSIVE NonBlank(_)
\* how many border codes are not blank
NonBlank(borders) ==
    IF borders = <<>> THEN 0
    ELSE (IF TrimSpace(Head(borders)) = <<>> THEN 0 ELSE 1) + NonBlank(Tail(borders))

(* -------------------------------- claims ------------------------------- *)

\* C1: a GET on the info or exchange endpoint whose path code, trimmed and
\* lower-cased, is not exactly two characters in a-z is answered 400, and no
\* upstream call is issued at any point of the request.
C1_ValidateThenCall ==
    (/\ req.endpoint \in {"info", "exchange"}
     /\ req.method = "GET"
     /\ ~TwoLowerLetters(normalizeISO2(req.path)))
    => (/\ calls = <<>>
        /\ pc = "done"
        /\ writes = 1
        /\ resp.status = 400
        /\ resp.kind = "error")

\* a code of one two-byte character is refused without a call
C1_Witness ==
    /\ req.endpoint = "exchange"
    /\ req.method = "GET"
    /\ req.path = s_eacute
    /\ len(normalizeISO2(req.path)) = 2
    /\ resp.status = 400
    /\ calls = <<>>

\* C2: for a valid code the info and exchange endpoints answer 404 only when the
\* country provider answered the input lookup with 404, and answer 502 when it
\* answered any other non-200 status or the call failed at transport level.
C2_InputLookupMapping ==
    (/\ req.endpoint \in {"info", "exchange"}
     /\ pc = "done"
     /\ Len(calls) >= 1)
    => (/\ resp.status = 404 => (calls[1].res = "status" /\ calls[1].status = 404)
        /\ (calls[1].res = "transport"
            \/ (calls[1].res = "status" /\ calls[1].status # 404))
           => resp.status = 502)

\* the info endpoint answers 404 to a valid code whose lookup got a 500
C2_Divergence ==
    /\ req.endpoint = "info"
    /\ pc = "done"
    /\ Len(calls) = 1
    /\ calls[1].status = 500
    /\ resp.status = 404

\* C3: in the exchange endpoint a neighbour lookup that ends in a transport
\* failure, a malformed body or a non-200 status (404 included) is the last
\* upstream call of the request, and the request ends with a 502 error body,
\* never with a body holding an exchange-rates mapping.
C3_AbortOnNeighbourFailure ==
    req.endpoint = "exchange"
    => \A i \in 2..Len(calls) :
         (calls[i].svc = "country" /\ Failed(calls[i]))
         => (/\ i = Len(calls)
             /\ pc = "done"
             /\ writes = 1
             /\ resp.status = 502
             /\ resp.kind = "error")

\* the first of two neighbours answers 404: the second is never looked up
C3_Witness ==
    /\ req.endpoint = "exchange"
    /\ pc = "done"
    /\ NonBlank(input.borders) = 2
    /\ Len(calls) = 2
    /\ calls[2].res = "status"
    /\ calls[2].status = 404
    /\ resp.status = 502

\* C4: an exchange request calls the rate provider at most once, and only as
\* its last call, after the lookup of every non-blank border has succeeded;
\* when those lookups leave the neighbour-currency set empty (zero borders
\* included) it does not call it and answers 200 with an empty mapping.
C4_RateCallCount ==
    req.endpoint = "exchange"
    => (/\ Cardinality(Indexes("rates")) <= 1
        /\ \A i \in Indexes("rates") :
             /\ i = Len(calls)
             /\ i = NonBlank(input.borders) + 2
             /\ \A j \in 1..(i - 1) : calls[j].svc = "country" /\ calls[j].res = "ok"
             /\ neighCurrencies # {}
        /\ (/\ Len(calls) = NonBlank(input.borders) + 1
            /\ \A j \in 1..Len(calls) : calls[j].res = "ok"
            /\ Len(base) = 3
            /\ neighCurrencies = {})
           => (/\ pc = "done"
               /\ resp.status = 200
               /\ resp.kind = "exchange"
               /\ resp.rates = <<>>))

\* every neighbour resolved shares the base currency or has none: 200, no rates
C4_Witness ==
    /\ req.endpoint = "exchange"
    /\ pc = "done"
    /\ NonBlank(input.borders) = 2
    /\ Len(calls) = 3
    /\ Indexes("rates") = {}
    /\ resp.status = 200
    /\ resp.rates = <<>>

\* the smallest key of a country's currencies, upper-cased (<<>> if none)
RefCurrency(c) == IF c.currencies = {} THEN <<>> ELSE ToUpper(MinKey(c.currencies))

\* the reference neighbour-currency set N
RefN == {ccy \in {RefCurrency(c) : c \in resolved} : Len(ccy) = 3 /\ ccy # RefCurrency(input)}

\* the rate mapping R the rate provider returned (empty if it was not called)
RefR == IF Indexes("rates") # {} THEN reply.rates ELSE <<>>

\* C5: on every 200 response of the exchange endpoint exchange-rates is the
\* mapping c -> R[c] for the c in N that R has, N being the upper-cased
\* smallest keys of the resolved neighbours that are 3 characters long and
\* differ from the base currency; the base currency is never a key of it.
C5_ReferenceFilter ==
    (req.endpoint = "exchange" /\ pc = "done" /\ resp.status = 200)
    => (/\ resp.kind = "exchange"
        /\ resp.rates = [ccy \in RefN \cap DOMAIN RefR |-> RefR[ccy]]
        /\ resp.base \notin DOMAIN resp.rates)

\* two neighbours, one sharing the base currency, which R also quotes
C5_Witness ==
    /\ req.endpoint = "exchange"
    /\ pc = "done"
    /\ resp.status = 200
    /\ Cardinality(resolved) = 2
    /\ \E c \in resolved : RefCurrency(c) = resp.base
    /\ resp.base \in DOMAIN RefR
    /\ Cardinality(DOMAIN resp.rates) = 1
    /\ \E ccy \in DOMAIN resp.rates : resp.rates[ccy] = 2

\* the code a probe's call reports
ProbeCode(call) == IF call.res = "transport" THEN 502 ELSE call.status

\* C6: a GET on the status endpoint probes both upstreams, the second whatever
\* the first returned; the response is 200 iff both probes returned HTTP 200
\* and 502 otherwise; a probe failing at transport level is reported as 502;
\* the body carries both probe codes.
C6_StatusAggregation ==
    (req.endpoint = "status" /\ req.method = "GET")
    => (/\ pc \in {"await_probe1", "await_probe2", "done"}
        /\ pc = "await_probe2" => (Len(calls) = 2 /\ restStatus = ProbeCode(calls[1]))
        /\ pc = "done"
           => (/\ Len(calls) = 2
               /\ calls[1].svc = "country" /\ calls[2].svc = "rates"
               /\ resp.kind = "status"
               /\ resp.rest = ProbeCode(calls[1])
               /\ resp.curr = ProbeCode(calls[2])
               /\ resp.status = 200
                  <=> (/\ calls[1].res = "ok" /\ calls[1].status = 200
                       /\ calls[2].res = "ok" /\ calls[2].status = 200)
               /\ resp.status \in {200, 502}))

\* the first probe fails at transport level, the second returns 200
C6_Witness ==
    /\ req.endpoint = "status"
    /\ pc = "done"
    /\ Len(calls) = 2
    /\ calls[1].res = "transport"
    /\ calls[2].status = 200
    /\ resp.status = 502
    /\ resp.rest = 502
    /\ resp.curr = 200

\* C7 (safety): a handler that has returned has written exactly one response,
\* with a status among 200, 400, 404, 405 and 502, one that has not returned has
\* written none, and no call repeats an earlier call of the request that failed.
C7_OneResponse ==
    /\ pc = "done" => (writes = 1 /\ resp.status \in {200, 400, 404, 405, 502})
    /\ pc # "done" => (writes = 0 /\ resp = NoResp)
    /\ \A i \in 1..Len(calls) : \A j \in (i + 1)..Len(calls) :
         Failed(calls[i]) => ~(calls[j].svc = calls[i].svc /\ calls[j].arg = calls[i].arg)

\* the handler is blocked in an outbound call
Awaiting ==
    pc \in {"await_probe1", "await_probe2", "await_country", "await_neigh", "await_rates"}

\* a blocked handler can go on as soon as its call returns, and a request makes
\* at most one call per non-blank border and two more
C7_Bounded ==
    Awaiting => (ENABLED Next /\ Len(calls) <= NonBlank(input.borders) + 2)

\* a step of a blocked handler either returns from the handler or issues one
\* more call for the same border list
C7_Progress ==
    Awaiting => \/ pc' = "done"
                \/ /\ Awaiting'
                   /\ Len(calls') = Len(calls) + 1
                   /\ pc = "await_neigh" => input' = input

\* C7: every inbound request gets exactly one response, whatever the method,
\* the path code and the upstreams' answers, once each outbound call has
\* returned: C7_OneResponse always holds, and a handler terminates because it
\* is never stuck and every step returns or uses up one of a bounded number
\* of calls.
C7_EveryRequestAnswered ==
    [](C7_OneResponse /\ C7_Bounded) /\ [][C7_Progress]_vars

\* an exchange request whose rate lookup timed out after two neighbour lookups
C7_Witness ==
    /\ req.endpoint = "exchange"
    /\ pc = "done"
    /\ writes = 1
    /\ Len(calls) = 4
    /\ calls[4].res = "transport"
    /\ resp.status = 502

\* C8: in every 200 response of the exchange endpoint the base currency and
\* every key of exchange-rates is exactly 3 uppercase letters A-Z.
C8_CurrencyCodesAreLetters ==
    (req.endpoint = "exchange" /\ pc = "done" /\ resp.status = 200)
    => (/\ ThreeUpperLetters(resp.base)
        /\ \A ccy \in DOMAIN resp.rates : ThreeUpperLetters(ccy))

\* a 200 response whose base currency is "12A"
C8_Divergence ==
    /\ req.endpoint = "exchange"
    /\ pc = "done"
    /\ resp.status = 200
    /\ resp.base = s_12A

\* the response being processed is a 200 of the country provider with a body
CountryBody == ~reply.transport /\ reply.status = StatusOK /\ reply.shape # "none"

\* C9: on a 200 of the country provider fetchCountryAlpha returns the record
\* when the body is a single object and when it is a non-empty list (then its
\* first element), and a shape error only when the body is neither.
C9_PayloadShapes ==
    CountryBody
    => (/\ (reply.shape \in {"object", "list"} /\ reply.items # <<>>)
           => (fetched.err = "none" /\ fetched.st = StatusOK /\ fetched.c = reply.items[1])
        /\ fetched.err = "shape" => reply.shape \notin {"object", "list"})

\* a single-object body ends in the shape error
C9_Divergence ==
    /\ CountryBody
    /\ reply.shape = "object"
    /\ fetched.err = "shape"
    /\ fetched.c.nil

\* C10: once the input country of an exchange request is fetched, the base
\* currency is its lexicographically smallest currency key, upper-cased,
\* whatever the order of the keys; if it has no key or that key is not
\* exactly 3 characters the response is 502, even when another key is.
C10_BaseCurrency ==
    (req.endpoint = "exchange" /\ Len(calls) >= 1 /\ calls[1].res = "ok")
    => (/\ ~input.nil
        /\ base = RefCurrency(input)
        /\ Len(RefCurrency(input)) # 3
           => (pc = "done" /\ resp.status = 502 /\ resp.kind = "error" /\ Len(calls) = 1))

\* the smallest key is malformed while another key is a 3-character code
C10_Witness ==
    /\ req.endpoint = "exchange"
    /\ pc = "done"
    /\ Len(calls) = 1
    /\ calls[1].res = "ok"
    /\ Len(RefCurrency(input)) # 3
    /\ \E k \in input.currencies : Len(k) = 3
    /\ resp.status = 502

====
